---- MODULE Spec2Model ----
(***************************************************************************)
(* GitHub_Summarizer: the Aggregator (pages/api/fetch.js, the API route    *)
(* handler) and the Presenter (the Home page with its ProjectCard          *)
(* components).                                                            *)
(*                                                                         *)
(* JavaScript values are modelled as follows.  null / undefined fields of  *)
(* an upstream document are the sentinel strings NoLanguage and NoName; an *)
(* optional value is a sequence of length 0 or 1; a plain object used as a *)
(* map (languageStats) is a function whose DOMAIN is the set of own keys;  *)
(* an array is a sequence.  A repository name is its position in the       *)
(* upstream list (names are unique within an account).                     *)
(***************************************************************************)
EXTENDS Integers, Sequences, FiniteSets, TLC

\* ------------------------------------------------------------------ bounds
MaxRepos == 4       \* longest upstream repository list in SpecRank, SpecLang
MaxStars == 1       \* star counts range over 0..MaxStars
MaxWeeks == 5       \* longest weekly commit-activity series
MaxTotal == 2       \* weekly totals range over 0..MaxTotal
MaxFanWeeks == 2    \* longest weekly series in the runs of Spec
MaxRecent == 1      \* recentCommits of a shown project ranges over 0..MaxRecent
MaxRequests == 2    \* requests the page sends, in SpecUI
MaxCards == 2       \* most projects in an answer, in SpecUI

\* ------------------------------------------------------- program constants
TopN == 3           \* .slice(0,3)
RecentWeeks == 4    \* .slice(-4)
StatusOk == 200
StatusMethodNotAllowed == 405
StatusServerError == 500

NoLanguage == "<null>"
NoError == ""
NoName == "<null>"
Languages == {"JavaScript", "Python"}

\* ------------------------------------------------------------ JS helpers
Min(a, b) == IF a < b THEN a ELSE b
Max(a, b) == IF a > b THEN a ELSE b

\* truthiness of a string-or-null field
Truthy(s) == s # NoLanguage /\ s # ""

\* Array.prototype.slice(start, end) with non-negative arguments (0-based,
\* end exclusive)
Slice(arr, start, end) ==
  SubSeq(arr, Min(start, Len(arr)) + 1, Min(end, Len(arr)))

\* Array.prototype.slice(-n): the last n elements (all when shorter)
SliceLast(arr, n) == SubSeq(arr, Max(Len(arr) - n, 0) + 1, Len(arr))

\* Array.prototype.filter, keeping the elements whose index is in keep
RECURSIVE FilterIdx(_, _, _)
FilterIdx(arr, keep, i) ==
  IF i > Len(arr) THEN <<>>
  ELSE IF i \in keep THEN <<arr[i]>> \o FilterIdx(arr, keep, i + 1)
  ELSE FilterIdx(arr, keep, i + 1)

\* faulty variant of InsertSorted: an element goes before the elements it
\* compares equal to, so ties come out reversed
RECURSIVE InsertUnstable(_, _, _)
InsertUnstable(sorted, x, cmp) ==
  IF sorted = <<>> THEN <<x>>
  ELSE IF cmp[sorted[Len(sorted)]][x] < 0 THEN Append(sorted, x)
  ELSE Append(InsertUnstable(SubSeq(sorted, 1, Len(sorted) - 1), x, cmp),
              sorted[Len(sorted)])

\* Array.prototype.sort is a stable sort (ECMAScript 2019).  cmp[i][j] is the
\* value of the comparator on (arr[i], arr[j]); the result lists the indices
\* of arr in sorted order.  An element goes after every element already
\* placed that does not compare greater than it.
RECURSIVE InsertSorted(_, _, _)
InsertSorted(sorted, x, cmp) ==
  IF sorted = <<>> THEN <<x>>
  ELSE IF cmp[sorted[Len(sorted)]][x] <= 0 THEN Append(sorted, x)
  ELSE Append(InsertSorted(SubSeq(sorted, 1, Len(sorted) - 1), x, cmp),
              sorted[Len(sorted)])

RECURSIVE SortedIdx(_, _)
SortedIdx(n, cmp) ==
  IF n = 0 THEN <<>> ELSE InsertSorted(SortedIdx(n - 1, cmp), n, cmp)

ArraySort(arr, cmp) ==
  LET idx == SortedIdx(Len(arr), cmp) IN [k \in 1..Len(arr) |-> arr[idx[k]]]

\* ----------------------------------------------------- the external source
\* `${username}` in the request URLs: the template literal's ToString
UrlSegment(username) ==
  CASE username.type = "undefined" -> "undefined"
    [] username.type = "number" -> "42"
    [] OTHER -> username.val

Usernames ==
  { [type |-> "string", val |-> "octocat"],
    [type |-> "string", val |-> ""],
    [type |-> "number", val |-> "42"],
    [type |-> "undefined", val |-> ""] }

ValidUsername(username) == username.type = "string" /\ username.val # ""

\* GET /users/:segment answers with an account document
UserDocs(segment) ==
  { [login |-> segment, name |-> n] : n \in {NoName, "The Octocat"} }

\* GET /users/:segment/repos answers with a list of repository documents
RepoAttrs(langs, stars) ==
  [fork : BOOLEAN, language : langs, stargazers_count : stars]

RepoDoc(i, a) ==
  [name |-> i, fork |-> a.fork, language |-> a.language,
   stargazers_count |-> a.stargazers_count]

RepoLists(m, langs, stars) ==
  { [i \in 1..m |-> RepoDoc(i, g[i])] : g \in [1..m -> RepoAttrs(langs, stars)] }

\* GET /repos/:owner/:repo/stats/commit_activity answers with a weekly series,
\* with 202 and an empty document while the statistics are being computed,
\* or with an error status
WeekDoc(i, t) == [week |-> i, total |-> t, days |-> <<t, 0, 0, 0, 0, 0, 0>>]

WeekSeries(m) ==
  { [i \in 1..m |-> WeekDoc(i, g[i])] : g \in [1..m -> 0..MaxTotal] }

ActivityError == [kind |-> "error", data |-> <<>>]
ActivityAccepted == [kind |-> "accepted", data |-> <<>>]
ActivityOk(series) == [kind |-> "ok", data |-> series]

\* the answers without a series (m = -1) and those with a series of m weeks
ActivityBodies(series, m) ==
  IF m < 0 THEN {ActivityError, ActivityAccepted}
  ELSE {ActivityOk(s) : s \in series[m]}

NoBody == [kind |-> "none", data |-> <<>>]

\* --------------------------------------------------- handler: pure steps
Profile(doc) ==
  [login |-> doc.login,
   name |-> IF Truthy(doc.name) THEN doc.name ELSE doc.login]

\* reposRes.data.filter(r => !r.fork)
AllRepos(data) ==
  FilterIdx(data, {i \in 1..Len(data) : ~data[i].fork}, 1)

EmptyObject == [k \in {} |-> 0]
Get(obj, k) == IF k \in DOMAIN obj THEN obj[k] ELSE 0
Put(obj, k, v) == [x \in DOMAIN obj \cup {k} |-> IF x = k THEN v ELSE obj[x]]

RECURSIVE CountLanguages(_, _)
CountLanguages(repos, stats) ==
  IF repos = <<>> THEN stats
  ELSE LET repo == Head(repos) IN
       CountLanguages(Tail(repos),
         IF Truthy(repo.language)
         THEN Put(stats, repo.language, Get(stats, repo.language) + 1)
         ELSE stats)

\* (a,b) => b.stargazers_count - a.stargazers_count
StarCompare(arr) ==
  [i \in 1..Len(arr) |->
    [j \in 1..Len(arr) |-> arr[j].stargazers_count - arr[i].stargazers_count]]

\* faulty variant of SortedByStars: a sort that is not stable
SortedByStarsUnstable(repos) ==
  LET cmp == StarCompare(repos)
      RECURSIVE Idx(_)
      Idx(n) == IF n = 0 THEN <<>> ELSE InsertUnstable(Idx(n - 1), n, cmp)
      idx == Idx(Len(repos))
  IN [k \in 1..Len(repos) |-> repos[idx[k]]]

\* allRepos.sort(...): sorts allRepos in place and returns it
SortedByStars(repos) == ArraySort(repos, StarCompare(repos))

TopRepos(sorted) == Slice(sorted, 0, TopN)

\* faulty variant of LanguageStats: counts the selected repositories only
LanguageStatsOfTop(repos) ==
  CountLanguages(TopRepos(SortedByStars(repos)), EmptyObject)

\* languageStats, counted over allRepos before it is ranked
LanguageStats(repos) == CountLanguages(repos, EmptyObject)

\* commitRes.data.map(week => ({ week: week.week, total: week.total }))
MapWeeks(data) ==
  [i \in 1..Len(data) |-> [week |-> data[i].week, total |-> data[i].total]]

\* faulty variant of CommitWeeks: no inner try/catch, the callback throws
CommitWeeksUncaught(body) ==
  IF body.kind = "ok" THEN [threw |-> FALSE, weeks |-> MapWeeks(body.data)]
  ELSE [threw |-> TRUE, weeks |-> <<>>]

\* the inner try/catch: an error status rejects the call, and the 202 body is
\* not an array, so .map throws; either way commitWeeks stays []
CommitWeeks(body) ==
  IF body.kind = "ok" THEN [threw |-> FALSE, weeks |-> MapWeeks(body.data)]
  ELSE [threw |-> FALSE, weeks |-> <<>>]

RECURSIVE SumTotals(_)
SumTotals(weeks) ==
  IF weeks = <<>> THEN 0
  ELSE SumTotals(SubSeq(weeks, 1, Len(weeks) - 1)) + weeks[Len(weeks)].total

\* faulty variant of RecentCommits: the first four weeks, slice(0,4)
RecentCommitsFirst(commitWeeks) == SumTotals(Slice(commitWeeks, 0, RecentWeeks))

\* commitWeeks.slice(-4).reduce((sum, w) => sum + (w.total||0), 0)
RecentCommits(commitWeeks) == SumTotals(SliceLast(commitWeeks, RecentWeeks))

Project(repo, commitWeeks) ==
  [name |-> repo.name,
   stars |-> repo.stargazers_count,
   language |-> repo.language,
   recentCommits |-> RecentCommits(commitWeeks),
   commitWeeks |-> commitWeeks]

\* faulty variant of ResultSlot: values are pushed as the callbacks finish
ResultSlotPush(i, order) == Len(order) + 1

\* Promise.all stores the value of the i-th promise at index i
ResultSlot(i, order) == i

\* the repositories a commit-activity call is made for: topRepos.map(...)
ActivityTargets(top) == {top[i].name : i \in 1..Len(top)}

\* faulty variant of ErrorResponse: the profile fetched so far is sent along
ErrorResponseWithProfile(prof) ==
  [status |-> StatusServerError,
   body |-> [error |-> "Failed to fetch GitHub data.", profile |-> prof]]

\* res.status(500).json({ error: 'Failed to fetch GitHub data.' })
ErrorResponse(prof) ==
  [status |-> StatusServerError,
   body |-> [error |-> "Failed to fetch GitHub data."]]

\* res.status(200).json({ profile, languageStats, projects })
SuccessResponse(prof, stats, projs) ==
  [status |-> StatusOk,
   body |-> [profile |-> prof, languageStats |-> stats, projects |-> projs]]

\* res.status(405).end()
MethodNotAllowed ==
  [status |-> StatusMethodNotAllowed, body |-> EmptyObject]

\* ------------------------------------------------------------------ state
VARIABLES
  req,            \* the inbound request: method and body.username
  pc,             \* where the handler is: idle, awaitUser, awaitRepos,
                  \* fanout (inside Promise.all), done
  calls,          \* number of axios.get calls made, per endpoint
  profile,        \* the handler's profile (optional)
  reposData,      \* reposRes.data once the list call has succeeded (optional)
  allRepos,       \* the handler's allRepos array
  languageStats,  \* the handler's languageStats object
  topRepos,       \* the handler's topRepos array
  branches,       \* per selected repository: the body its call was answered
                  \* with, NoBody while the call is pending
  settled,        \* the selected repositories' indices in the order their
                  \* callbacks finished
  results,        \* Promise.all's value slots (optional projects)
  responses       \* the responses sent on res, in order

aggVars == <<req, pc, calls, profile, reposData, allRepos, languageStats,
             topRepos, branches, settled, results, responses>>


\* the Presenter: the state of Home and of the mounted ProjectCards
VARIABLES
  username,          \* Home state
  data,              \* Home state: the fetched result (optional)
  loading,           \* Home state
  error,             \* Home state: NoError for null
  sortBy,            \* Home state
  filterLanguage,    \* Home state: "" for all languages
  maximizedProject,  \* Home state; no code sets it
  submitted,         \* number of fetchProfile calls that sent a request
  inflight,          \* the requests not yet answered
  displayed,         \* the project list rendered, getFilteredProjects()
  cards              \* the mounted ProjectCards, by key: showSandbox and
                     \* isMaximized

uiVars == <<username, data, loading, error, sortBy, filterLanguage,
            maximizedProject, submitted, inflight, displayed, cards>>

vars == <<aggVars, uiVars>>

NoCalls == [user |-> 0, repos |-> 0, activity |-> [n \in 1..MaxRepos |-> 0]]

AggIdle ==
  /\ pc = "idle"
  /\ calls = NoCalls
  /\ profile = <<>>
  /\ reposData = <<>>
  /\ allRepos = <<>>
  /\ languageStats = EmptyObject
  /\ topRepos = <<>>
  /\ branches = <<>>
  /\ settled = <<>>
  /\ results = <<>>
  /\ responses = <<>>

NoCards == [n \in {} |-> [showSandbox |-> FALSE, isMaximized |-> FALSE]]

UiIdle ==
  /\ username = <<>>
  /\ data = <<>>
  /\ loading = FALSE
  /\ error = NoError
  /\ sortBy = "stars"
  /\ filterLanguage = ""
  /\ maximizedProject = <<>>
  /\ submitted = 0
  /\ inflight = {}
  /\ displayed = <<>>
  /\ cards = NoCards

AggInit ==
  /\ req \in [method : {"GET", "POST"}, username : Usernames]
  /\ AggIdle

\* --------------------------------------------------------------- handler
\* lines 5-12: the method check, then the profile call is issued
HandleRequest ==
  /\ UNCHANGED uiVars
  /\ pc = "idle"
  /\ IF req.method # "POST"
     THEN /\ responses' = Append(responses, MethodNotAllowed)
          /\ pc' = "done"
          /\ UNCHANGED calls
     ELSE /\ calls' = [calls EXCEPT !.user = @ + 1]
          /\ pc' = "awaitUser"
          /\ UNCHANGED responses
  /\ UNCHANGED <<req, profile, reposData, allRepos, languageStats, topRepos,
                 branches, settled, results>>

\* the outer catch
Fail ==
  /\ responses' = Append(responses, ErrorResponse(profile))
  /\ pc' = "done"

\* lines 12-28: the profile call resolves; the list call is issued
UserResponseOk ==
  /\ UNCHANGED uiVars
  /\ pc = "awaitUser"
  /\ \E doc \in UserDocs(UrlSegment(req.username)) :
       profile' = <<Profile(doc)>>
  /\ calls' = [calls EXCEPT !.repos = @ + 1]
  /\ pc' = "awaitRepos"
  /\ UNCHANGED <<req, reposData, allRepos, languageStats, topRepos, branches,
                 settled, results, responses>>

\* faulty variant of UserResponseError: the profile call is made again
UserResponseErrorRetry ==
  /\ UNCHANGED uiVars
  /\ pc = "awaitUser"
  /\ calls.user < 2
  /\ calls' = [calls EXCEPT !.user = @ + 1]
  /\ UNCHANGED <<req, pc, profile, reposData, allRepos, languageStats,
                 topRepos, branches, settled, results, responses>>

\* line 12 rejects
UserResponseError ==
  /\ UNCHANGED uiVars
  /\ pc = "awaitUser"
  /\ Fail
  /\ UNCHANGED <<req, calls, profile, reposData, allRepos, languageStats,
                 topRepos, branches, settled, results>>

\* lines 29-45: the list call resolves; filter, count, rank, and issue one
\* commit-activity call per selected repository
ReposResponseOk(lists) ==
  /\ UNCHANGED uiVars
  /\ pc = "awaitRepos"
  /\ \E m \in DOMAIN lists : \E list \in lists[m] :
       LET all == AllRepos(list)
           stats == LanguageStats(all)
           sorted == SortedByStars(all)
           top == TopRepos(sorted)
       IN /\ reposData' = <<list>>
          /\ allRepos' = sorted
          /\ languageStats' = stats
          /\ topRepos' = top
          /\ branches' = [i \in 1..Len(top) |-> NoBody]
          /\ settled' = <<>>
          /\ results' = [i \in 1..Len(top) |-> <<>>]
          /\ calls' = [calls EXCEPT !.activity =
                         [n \in 1..MaxRepos |->
                            IF n \in ActivityTargets(top)
                            THEN @[n] + 1 ELSE @[n]]]
  /\ pc' = "fanout"
  /\ UNCHANGED <<req, profile, responses>>

\* line 25 rejects
ReposResponseError ==
  /\ UNCHANGED uiVars
  /\ pc = "awaitRepos"
  /\ Fail
  /\ UNCHANGED <<req, calls, profile, reposData, allRepos, languageStats,
                 topRepos, branches, settled, results>>

\* lines 47-72: the commit-activity call of the i-th selected repository
\* settles and its async callback runs to the end.  A callback that threw
\* would reject Promise.all and land in the outer catch.
CommitResponse(series) ==
  /\ UNCHANGED uiVars
  /\ pc \in {"fanout", "done"}
  /\ \E i \in 1..Len(branches), m \in {-1} \cup DOMAIN series :
       /\ branches[i] = NoBody
       /\ \E body \in ActivityBodies(series, m) :
            LET cw == CommitWeeks(body) IN
            /\ branches' = [branches EXCEPT ![i] = body]
            /\ settled' = Append(settled, i)
            /\ IF cw.threw
               THEN /\ UNCHANGED results
                    /\ IF pc = "fanout"
                       THEN Fail
                       ELSE UNCHANGED <<pc, responses>>
               ELSE /\ results' =
                         [results EXCEPT ![ResultSlot(i, settled)] =
                            <<Project(topRepos[i], cw.weeks)>>]
                    /\ UNCHANGED <<pc, responses>>
  /\ UNCHANGED <<req, calls, profile, reposData, allRepos, languageStats,
                 topRepos>>

\* Promise.all resolves once every slot holds a value
AllSettled(slots) == \A i \in 1..Len(slots) : slots[i] # <<>>

\* line 76
Respond ==
  /\ UNCHANGED uiVars
  /\ pc = "fanout"
  /\ AllSettled(results)
  /\ responses' =
       Append(responses,
              SuccessResponse(profile, languageStats,
                              [i \in 1..Len(results) |-> results[i][1]]))
  /\ pc' = "done"
  /\ UNCHANGED <<req, calls, profile, reposData, allRepos, languageStats,
                 topRepos, branches, settled, results>>

Handler(lists, series) ==
  \/ HandleRequest
  \/ UserResponseOk
  \/ UserResponseError
  \/ ReposResponseOk(lists)
  \/ ReposResponseError
  \/ CommitResponse(series)
  \/ Respond

\* ================================================================ Presenter
\* Strings the Presenter inspects character by character (the typed username,
\* project names) are sequences of UTF-16 code units.
Space == 32

RECURSIVE TrimStart(_)
TrimStart(str) ==
  IF str # <<>> /\ Head(str) = Space THEN TrimStart(Tail(str)) ELSE str

RECURSIVE TrimEnd(_)
TrimEnd(str) ==
  IF str # <<>> /\ str[Len(str)] = Space
  THEN TrimEnd(SubSeq(str, 1, Len(str) - 1)) ELSE str

\* String.prototype.trim
Trim(str) == TrimEnd(TrimStart(str))

\* String.prototype.localeCompare on ASCII letters: the letters decide, case
\* ignored; between strings with the same letters the first difference in
\* case decides, lower case first
ToLower(c) == IF c \in 65..90 THEN c + 32 ELSE c

RECURSIVE PrimaryCompare(_, _)
PrimaryCompare(a, b) ==
  IF a = <<>> /\ b = <<>> THEN 0
  ELSE IF a = <<>> THEN -1
  ELSE IF b = <<>> THEN 1
  ELSE IF ToLower(Head(a)) < ToLower(Head(b)) THEN -1
  ELSE IF ToLower(Head(a)) > ToLower(Head(b)) THEN 1
  ELSE PrimaryCompare(Tail(a), Tail(b))

RECURSIVE CaseCompare(_, _)
CaseCompare(a, b) ==
  IF a = <<>> \/ b = <<>> THEN 0
  ELSE IF Head(a) = Head(b) THEN CaseCompare(Tail(a), Tail(b))
  ELSE IF Head(a) > Head(b) THEN -1
  ELSE 1

LocaleCompare(a, b) ==
  IF PrimaryCompare(a, b) # 0 THEN PrimaryCompare(a, b) ELSE CaseCompare(a, b)

\* the names of the projects shown: "ab", "Aa", "b"
ProjectNames == << <<97, 98>>, <<65, 97>>, <<98>> >>

\* the usernames typed: "", " ", "o", "h"
TypedUsernames == { <<>>, <<Space>>, <<111>>, <<104>> }

SortKeys == {"stars", "recent", "name"}

CompatibleLanguages ==
  {"JavaScript", "TypeScript", "React", "Vue", "Angular", "HTML"}

\* /api/fetch answers without topics, so proj.topics is undefined
Topics(proj) == {}

IsSandboxCompatible(proj) ==
  proj.language \in CompatibleLanguages \/ Topics(proj) # {}

\* the comparator of getFilteredProjects
SortCompare(key, arr) ==
  [i \in 1..Len(arr) |->
    [j \in 1..Len(arr) |->
      CASE key = "stars" -> arr[j].stars - arr[i].stars
        [] key = "recent" -> arr[j].recentCommits - arr[i].recentCommits
        [] key = "name" -> LocaleCompare(arr[i].name, arr[j].name)
        [] OTHER -> 0]]

\* faulty variant of GetFilteredProjects, without the copy: filtered aliases
\* data.projects unless the filter builds a new array, and sort works in place
GetFilteredProjectsInPlace(projects, filter, key) ==
  IF filter # ""
  THEN LET kept == FilterIdx(projects,
                     {i \in 1..Len(projects) : projects[i].language = filter}, 1)
       IN [projects |-> projects,
           filtered |-> ArraySort(kept, SortCompare(key, kept))]
  ELSE LET sorted == ArraySort(projects, SortCompare(key, projects))
       IN [projects |-> sorted, filtered |-> sorted]

\* getFilteredProjects: the value returned and data.projects after the call
GetFilteredProjects(projects, filter, key) ==
  LET copy == projects
      kept == IF filter # ""
              THEN FilterIdx(copy,
                     {i \in 1..Len(copy) : copy[i].language = filter}, 1)
              ELSE copy
  IN [projects |-> projects,
      filtered |-> ArraySort(kept, SortCompare(key, kept))]

\* getAvailableLanguages
GetAvailableLanguages(d) ==
  IF d = <<>> THEN {}
  ELSE {d[1].projects[i].language : i \in 1..Len(d[1].projects)}
       \ {NoLanguage, ""}

\* what /api/fetch answers: the result, the error document, or no answer
ApiResult(login, projs) ==
  [kind |-> "result", login |-> login, projects |-> projs]
ApiError == [kind |-> "error", login |-> <<>>, projects |-> <<>>]
ApiUnreachable == [kind |-> "network", login |-> <<>>, projects |-> <<>>]

ProjectAttrs(langs, stars, recents) ==
  [language : langs, stars : stars, recentCommits : recents]

\* the ways to name the m projects of a list: the first m of ProjectNames, or
\* any m of them in any order
NamesInOrder(m) == { [i \in 1..m |-> ProjectNames[i]] }
NamesAnyOrder(m) ==
  { [i \in 1..m |-> ProjectNames[q[i]]] :
      q \in { r \in [1..m -> 1..Len(ProjectNames)] :
                \A i, j \in 1..m : i # j => r[i] # r[j] } }

\* the lists of m projects as the Aggregator ranks them: distinct names,
\* stars descending
ProjectLists(m, namings, langs, stars, recents) ==
  { [i \in 1..m |->
       [name |-> names[i], language |-> g[i].language, stars |-> g[i].stars,
        recentCommits |-> g[i].recentCommits]] :
      g \in { h \in [1..m -> ProjectAttrs(langs, stars, recents)] :
                \A i \in 1..m : i < m => h[i].stars >= h[i + 1].stars },
      names \in namings }

\* React keeps a keyed card's state while the key stays in the list and
\* mounts a card with the useState defaults otherwise
Reconcile(old, shown) ==
  [n \in {shown[i].name : i \in 1..Len(shown)} |->
     IF n \in DOMAIN old THEN old[n]
     ELSE [showSandbox |-> FALSE, isMaximized |-> FALSE]]

\* Home renders with state d, filter, key: getFilteredProjects runs, and the
\* cards of the projects it returns are the ones mounted
RenderHome(d, filter, key) ==
  LET r == IF d = <<>> THEN [projects |-> <<>>, filtered |-> <<>>]
           ELSE GetFilteredProjects(d[1].projects, filter, key)
  IN /\ data' = IF d = <<>> THEN <<>>
                ELSE <<[d[1] EXCEPT !.projects = r.projects]>>
     /\ displayed' = r.filtered
     /\ cards' = Reconcile(cards, r.filtered)

\* onChange of the search input
SetUsername ==
  /\ UNCHANGED aggVars
  /\ \E u \in TypedUsernames : u # username /\ username' = u
  /\ RenderHome(data, filterLanguage, sortBy)
  /\ UNCHANGED <<loading, error, sortBy, filterLanguage, maximizedProject,
                 submitted, inflight>>

\* fetchProfile up to its await
FetchProfile(maxRequests) ==
  IF Trim(username) = <<>>
  THEN /\ error' = "Please enter a GitHub username"
       /\ RenderHome(data, filterLanguage, sortBy)
       /\ UNCHANGED <<username, loading, sortBy, filterLanguage,
                      maximizedProject, submitted, inflight>>
  ELSE /\ submitted < maxRequests
       /\ loading' = TRUE
       /\ error' = NoError
       /\ submitted' = submitted + 1
       /\ inflight' = inflight \cup {[id |-> submitted + 1, username |-> username]}
       /\ RenderHome(<<>>, filterLanguage, sortBy)
       /\ UNCHANGED <<username, sortBy, filterLanguage, maximizedProject>>

\* the Showcase button, disabled while loading
ClickShowcase(maxRequests) ==
  /\ UNCHANGED aggVars
  /\ ~loading
  /\ FetchProfile(maxRequests)

\* Enter in the search input
PressEnter(maxRequests) ==
  /\ UNCHANGED aggVars
  /\ FetchProfile(maxRequests)

\* fetchProfile after its await: the answer to one request arrives
ResponseArrives(lists) ==
  /\ UNCHANGED aggVars
  /\ \E request \in inflight, m \in DOMAIN lists :
    \E answer \in {ApiError, ApiUnreachable}
                  \cup {ApiResult(request.username, p) : p \in lists[m]} :
      /\ inflight' = inflight \ {request}
      /\ loading' = FALSE
      /\ IF answer.kind = "result"
         THEN /\ filterLanguage' =
                   IF Len(answer.projects) > 0 THEN "" ELSE filterLanguage
              /\ RenderHome(<<[login |-> answer.login,
                               projects |-> answer.projects]>>,
                            filterLanguage', sortBy)
              /\ UNCHANGED error
         ELSE /\ error' = IF answer.kind = "error"
                          THEN "Failed to fetch GitHub data."
                          ELSE "Network error. Please try again."
              /\ RenderHome(data, filterLanguage, sortBy)
              /\ UNCHANGED filterLanguage
      /\ UNCHANGED <<username, sortBy, maximizedProject, submitted>>

\* onChange of the sort select
SetSortBy ==
  /\ UNCHANGED aggVars
  /\ data # <<>>
  /\ \E key \in SortKeys :
       /\ key # sortBy
       /\ sortBy' = key
       /\ RenderHome(data, filterLanguage, key)
  /\ UNCHANGED <<username, loading, error, filterLanguage, maximizedProject,
                 submitted, inflight>>

\* onChange of the language select
SetFilterLanguage ==
  /\ UNCHANGED aggVars
  /\ data # <<>>
  /\ \E lang \in {""} \cup GetAvailableLanguages(data) :
       /\ lang # filterLanguage
       /\ filterLanguage' = lang
       /\ RenderHome(data, lang, sortBy)
  /\ UNCHANGED <<username, loading, error, sortBy, maximizedProject,
                 submitted, inflight>>

\* the Try in Sandbox / Hide Sandbox button of a card
ToggleSandbox ==
  /\ UNCHANGED aggVars
  /\ \E i \in 1..Len(displayed) :
       LET proj == displayed[i] IN
       /\ IsSandboxCompatible(proj)
       /\ cards' = [cards EXCEPT ![proj.name].showSandbox = ~@]
  /\ UNCHANGED <<username, data, loading, error, sortBy, filterLanguage,
                 maximizedProject, submitted, inflight, displayed>>

\* a control that calls toggleMaximize is rendered: the maximize button next
\* to the sandbox toggle, or the close button over the iframe
MaximizeControlRendered(proj, card) ==
  \/ IsSandboxCompatible(proj) /\ card.showSandbox
  \/ card.showSandbox /\ card.isMaximized

\* setIsMaximized(!isMaximized) in the card with key name
SetIsMaximized(old, name) == [old EXCEPT ![name].isMaximized = ~@]

\* toggleMaximize of a card
ToggleMaximize ==
  /\ UNCHANGED aggVars
  /\ \E i \in 1..Len(displayed) :
       LET proj == displayed[i] IN
       /\ MaximizeControlRendered(proj, cards[proj.name])
       /\ cards' = SetIsMaximized(cards, proj.name)
  /\ UNCHANGED <<username, data, loading, error, sortBy, filterLanguage,
                 maximizedProject, submitted, inflight, displayed>>

Home(maxRequests, lists) ==
  \/ SetUsername
  \/ ClickShowcase(maxRequests)
  \/ PressEnter(maxRequests)
  \/ ResponseArrives(lists)
  \/ SetSortBy
  \/ SetFilterLanguage
  \/ ToggleSandbox
  \/ ToggleMaximize


\* ---------------------------------------------------------- specifications
\* Spec: any request; the list call answers with up to TopN repositories, so
\* that every repository that is not a fork is selected, and each
\* commit-activity call fails, is not yet computed, or answers with the
\* series of 0..MaxFanWeeks weeks of one commit each
FanSeries == [m \in 0..MaxFanWeeks |-> { [i \in 1..m |-> WeekDoc(i, 1)] }]
FanLists == [m \in 0..TopN |-> RepoLists(m, {"JavaScript"}, 0..MaxStars)]

Init == AggInit /\ UiIdle

Next == Handler(FanLists, FanSeries)

Spec == Init /\ [][Next]_vars

\* the runs below start from one well-formed request
InitOctocat ==
  /\ req = [method |-> "POST",
            username |-> [type |-> "string", val |-> "octocat"]]
  /\ AggIdle
  /\ UiIdle

\* SpecRank: repository lists of up to MaxRepos repositories with every
\* combination of fork flag and star count; every commit-activity call fails
\* or is not yet computed
RankLists == [m \in 0..MaxRepos |-> RepoLists(m, {"JavaScript"}, 0..MaxStars)]
NoSeries == [m \in {} |-> {}]
NextRank == Handler(RankLists, NoSeries)
SpecRank == InitOctocat /\ [][NextRank]_vars

\* SpecLang: repository lists of up to MaxRepos unstarred repositories with
\* every combination of fork flag and primary language
LangLists ==
  [m \in 0..MaxRepos |-> RepoLists(m, Languages \cup {NoLanguage}, {0})]
NextLang == Handler(LangLists, NoSeries)
SpecLang == InitOctocat /\ [][NextLang]_vars

\* SpecWeeks: at most one repository, and every weekly series of up to
\* MaxWeeks weeks with totals up to MaxTotal
WeeksLists == [m \in 0..1 |-> RepoLists(m, {"JavaScript"}, {0})]
AllSeries == [m \in 0..MaxWeeks |-> WeekSeries(m)]
NextWeeks == Handler(WeeksLists, AllSeries)
SpecWeeks == InitOctocat /\ [][NextWeeks]_vars

\* the Presenter runs leave the API route idle
AggQuiet ==
  /\ req = [method |-> "POST",
            username |-> [type |-> "string", val |-> "octocat"]]
  /\ AggIdle

\* SpecUI: the page from its first render; up to MaxRequests requests are
\* sent, each answered with an error or with up to MaxCards projects
UiLists ==
  [m \in 0..MaxCards |->
     ProjectLists(m, NamesInOrder(m), {"JavaScript", "Python"}, {0}, {0})]
InitUI == AggQuiet /\ UiIdle
NextUI == Home(MaxRequests, UiLists)
SpecUI == InitUI /\ [][NextUI]_vars

\* SpecSort: one request has been sent; it is answered with up to TopN
\* projects with every combination of language, stars and recent commits,
\* and the sort key and the language filter are then changed at will
SortLists ==
  [m \in 0..TopN |->
     ProjectLists(m, NamesAnyOrder(m), Languages \cup {NoLanguage},
                  0..MaxStars, 0..MaxRecent)]

InitSort ==
  /\ AggQuiet
  /\ username = <<111>>
  /\ data = <<>>
  /\ loading = TRUE
  /\ error = NoError
  /\ sortBy = "stars"
  /\ filterLanguage = ""
  /\ maximizedProject = <<>>
  /\ submitted = 1
  /\ inflight = {[id |-> 1, username |-> <<111>>]}
  /\ displayed = <<>>
  /\ cards = NoCards

NextSort ==
  \/ ResponseArrives(SortLists)
  \/ SetSortBy
  \/ SetFilterLanguage

SpecSort == InitSort /\ [][NextSort]_vars

\* ------------------------------------------------------------- properties
Succeeded == Len(responses) = 1 /\ responses[1].status = 200
Projects == responses[1].body.projects
NonForks == {i \in 1..Len(reposData[1]) : ~reposData[1][i].fork}

RECURSIVE TotalFrom(_, _)
TotalFrom(series, k) ==
  IF k > Len(series) THEN 0 ELSE series[k].total + TotalFrom(series, k + 1)

SameSeries(commitWeeks, series) ==
  /\ Len(commitWeeks) = Len(series)
  /\ \A k \in 1..Len(series) :
       /\ commitWeeks[k].week = series[k].week
       /\ commitWeeks[k].total = series[k].total

\* C1: once the profile and repository-list calls have succeeded, the request
\* ends with the success result whatever the commit-activity calls did: one
\* project per selected repository, a repository whose call failed or was not
\* yet computed has recentCommits = 0 and no weeks, and every other
\* repository has its own series and the sum of its last four weeks.
C1_ActivityFailureIsolated ==
  (pc = "done" /\ reposData # <<>>) =>
    /\ Succeeded
    /\ Len(Projects) = Min(3, Cardinality(NonForks))
    /\ \A i \in 1..Len(Projects) :
         /\ Projects[i].name = topRepos[i].name
         /\ branches[i].kind # "ok" =>
              Projects[i].recentCommits = 0 /\ Projects[i].commitWeeks = <<>>
         /\ branches[i].kind = "ok" =>
              /\ SameSeries(Projects[i].commitWeeks, branches[i].data)
              /\ Projects[i].recentCommits =
                   TotalFrom(branches[i].data,
                             Max(Len(branches[i].data) - 4, 0) + 1)

C1_Witness ==
  /\ pc = "done"
  /\ Succeeded
  /\ Len(Projects) = 3
  /\ \E i, j, k \in 1..3 :
       /\ branches[i].kind = "error"
       /\ branches[j].kind = "accepted"
       /\ branches[k].kind = "ok"
       /\ Projects[k].recentCommits = 2

\* C2: when the profile call or the repository-list call fails, exactly one
\* response is sent, its status is a server error and its body has the error
\* message and nothing else; no request is ever answered twice.
C2_UpstreamFailureIsOneError ==
  /\ Len(responses) <= 1
  /\ (pc = "done" /\ req.method = "POST" /\ reposData = <<>>) =>
       /\ Len(responses) = 1
       /\ responses[1].status \in 500..599
       /\ DOMAIN responses[1].body = {"error"}

C2_Witness ==
  /\ pc = "done"
  /\ profile # <<>>
  /\ reposData = <<>>
  /\ Len(responses) = 1
  /\ responses[1].status = 500

\* C3: a request whose username is missing, empty or not a string is answered
\* at once with a client-error status, and no external call is made for it.
C3_InvalidUsernameRejected ==
  (req.method = "POST" /\ ~ValidUsername(req.username) /\ pc # "idle") =>
    /\ pc = "done"
    /\ calls = NoCalls
    /\ Len(responses) = 1
    /\ responses[1].status \in 400..499

\* C4: the projects of a success result are non-fork repositories of the
\* upstream list, min(3, number of non-forks) of them, by star count
\* descending with equal star counts in upstream order, and no non-fork left
\* out has more stars than one that is included.
C4_TopThreeByStars ==
  Succeeded =>
    LET list == reposData[1]
        P == Projects
        included == {P[k].name : k \in 1..Len(P)}
    IN /\ Len(P) = Min(3, Cardinality(NonForks))
       /\ included \subseteq NonForks
       /\ Cardinality(included) = Len(P)
       /\ \A k \in 1..Len(P) : P[k].stars = list[P[k].name].stargazers_count
       /\ \A k, l \in 1..Len(P) :
            k < l => \/ P[k].stars > P[l].stars
                     \/ P[k].stars = P[l].stars /\ P[k].name < P[l].name
       /\ \A i \in NonForks \ included :
            \A k \in 1..Len(P) : list[i].stargazers_count <= P[k].stars

C4_Witness ==
  /\ Succeeded
  /\ Cardinality(NonForks) > 3
  /\ Len(Projects) = 3
  /\ Projects[1].name = 4
  /\ Projects[2].stars = Projects[3].stars
  /\ Projects[1].stars > Projects[2].stars
  /\ \E i \in NonForks : \A k \in 1..3 : Projects[k].name # i

RECURSIVE SumOver(_, _)
SumOver(f, S) ==
  IF S = {} THEN 0
  ELSE LET x == CHOOSE y \in S : TRUE IN f[x] + SumOver(f, S \ {x})

\* C5: languageStats of a success result has, for each language, the number
\* of non-fork repositories of the whole upstream list with that primary
\* language, and no entry for a language of no such repository; the counts
\* sum to the number of non-forks that have a primary language.
C5_LanguageStatsCountNonForks ==
  Succeeded =>
    LET list == reposData[1]
        stats == responses[1].body.languageStats
        Using(L) == {i \in NonForks : list[i].language = L}
    IN /\ DOMAIN stats = {L \in Languages : Using(L) # {}}
       /\ \A L \in DOMAIN stats : stats[L] = Cardinality(Using(L))
       /\ SumOver(stats, DOMAIN stats) =
            Cardinality({i \in NonForks : list[i].language # NoLanguage})

C5_Witness ==
  /\ Succeeded
  /\ Len(reposData[1]) = 4
  /\ Cardinality(NonForks) = 4
  /\ Len(Projects) = 3
  /\ \A i \in NonForks : reposData[1][i].language = "Python"
  /\ responses[1].body.languageStats["Python"] = 4

\* C6: a project whose weekly series is w1..wN has that series as commitWeeks,
\* in upstream order, and recentCommits is the sum of the last 4 totals when
\* N >= 4, of all totals when N < 4, and 0 when N = 0.
C6_RecentCommitsLastFour ==
  (Succeeded /\ Len(Projects) = 1 /\ branches[1].kind = "ok") =>
    LET w == branches[1].data
        N == Len(w)
        p == Projects[1]
    IN /\ SameSeries(p.commitWeeks, w)
       /\ N >= 4 => p.recentCommits =
            w[N - 3].total + w[N - 2].total + w[N - 1].total + w[N].total
       /\ N < 4 => p.recentCommits = TotalFrom(w, 1)
       /\ N = 0 => p.recentCommits = 0

C6_Witness ==
  /\ Succeeded
  /\ Len(Projects) = 1
  /\ branches[1].kind = "ok"
  /\ Len(branches[1].data) = 5
  /\ branches[1].data[1].total = 2
  /\ Projects[1].recentCommits = 3

\* C7: a success response is sent only when every commit-activity branch has
\* finished, and whatever the order the branches finished in, project i is
\* the i-th repository of the star ranking with the series its own call was
\* answered with.
C7_FanInKeepsRank ==
  \A r \in 1..Len(responses) :
    responses[r].status = 200 =>
      LET P == responses[r].body.projects IN
      /\ \A i \in 1..Len(branches) : branches[i] # NoBody
      /\ Len(settled) = Len(topRepos)
      /\ Len(P) = Len(topRepos)
      /\ \A i \in 1..Len(P) :
           /\ P[i].name = topRepos[i].name
           /\ P[i].commitWeeks =
                (IF branches[i].kind = "ok"
                 THEN [k \in 1..Len(branches[i].data) |->
                         [week |-> branches[i].data[k].week,
                          total |-> branches[i].data[k].total]]
                 ELSE <<>>)
      /\ \A i, j \in 1..Len(P) : i < j => P[i].stars >= P[j].stars

C7_Witness ==
  /\ Succeeded
  /\ settled = <<3, 1, 2>>
  /\ Len(Projects[1].commitWeeks) = 2
  /\ Len(Projects[2].commitWeeks) = 0
  /\ Len(Projects[3].commitWeeks) = 1
  /\ Projects[1].stars > Projects[3].stars

\* C8: every external call is made at most once and never again after it
\* failed: the profile call when the request is handled, the list call once
\* the profile call has succeeded, and one commit-activity call for each of
\* the at most 3 selected repositories once the list call has succeeded.
C8_EachCallOnce ==
  /\ calls.user = (IF pc # "idle" /\ req.method = "POST" THEN 1 ELSE 0)
  /\ calls.repos = (IF profile # <<>> THEN 1 ELSE 0)
  /\ \A n \in 1..MaxRepos :
       calls.activity[n] =
         (IF reposData # <<>> /\ \E i \in 1..Len(topRepos) : topRepos[i].name = n
          THEN 1 ELSE 0)
  /\ Cardinality({n \in 1..MaxRepos : calls.activity[n] > 0}) <= 3
  /\ calls.repos > 0 => calls.user = 1
  /\ (\E n \in 1..MaxRepos : calls.activity[n] > 0) => calls.repos = 1

C8_Witness ==
  /\ pc = "done"
  /\ Succeeded
  /\ Len(topRepos) = 3
  /\ \E i \in 1..3 : branches[i].kind = "error"
  /\ calls.user = 1
  /\ calls.repos = 1
  /\ Cardinality({n \in 1..MaxRepos : calls.activity[n] = 1}) = 3

\* C9: at most one project card is maximized, whatever was clicked.
C9_AtMostOneExpanded ==
  Cardinality({n \in DOMAIN cards : cards[n].isMaximized}) <= 1

PositionOf(projects, name) ==
  CHOOSE i \in 1..Len(projects) : projects[i].name = name

InSortOrder(key, a, b) ==
  CASE key = "stars" -> a.stars >= b.stars
    [] key = "recent" -> a.recentCommits >= b.recentCommits
    [] key = "name" -> LocaleCompare(a.name, b.name) <= 0

DisplayedIsStableSort ==
  data # <<>> =>
    LET P == data[1].projects
        D == displayed
        matching == {i \in 1..Len(P) :
                       filterLanguage = "" \/ P[i].language = filterLanguage}
    IN /\ Len(D) = Cardinality(matching)
       /\ {D[k].name : k \in 1..Len(D)} = {P[i].name : i \in matching}
       /\ \A k \in 1..Len(D) : D[k] = P[PositionOf(P, D[k].name)]
       /\ \A k, l \in 1..Len(D) :
            k < l =>
              /\ InSortOrder(sortBy, D[k], D[l])
              /\ InSortOrder(sortBy, D[l], D[k]) =>
                   PositionOf(P, D[k].name) < PositionOf(P, D[l].name)

\* C10: a step that is not the arrival of an answer (a change of the sort key
\* or of the language filter) leaves the fetched data as it is, content and
\* order; the list displayed is the projects of data that pass the filter,
\* in the order of the sort key, those equal under the key in fetched order.
C10_SortFilterKeepData ==
  /\ []DisplayedIsStableSort
  /\ [][(data # <<>> /\ inflight' = inflight) => data' = data]_vars

C10_Witness ==
  /\ data # <<>>
  /\ sortBy = "recent"
  /\ filterLanguage = ""
  /\ Len(displayed) = 3
  /\ displayed[1] = data[1].projects[3]
  /\ displayed[2] = data[1].projects[1]
  /\ displayed[3] = data[1].projects[2]
  /\ displayed[2].recentCommits = displayed[3].recentCommits
  /\ displayed[2].stars > displayed[1].stars

\* C11: loading is true while any request is in flight, and the outcome shown
\* once every request has been answered is that of the request submitted
\* last: when its answer arrives the page shows that answer alone (its data
\* and no fetch error, or a fetch error and no data), and an answer to an
\* earlier request that arrives after it changes neither the data nor the
\* error.
C11_LatestRequestWins ==
  /\ [](inflight # {} => loading)
  /\ [][\A r \in inflight :
          inflight' = inflight \ {r} =>
            LET fetchErrors == {"Failed to fetch GitHub data.",
                                "Network error. Please try again."}
            IN IF r.id = submitted
               THEN \/ /\ data' # <<>>
                       /\ data'[1].login = r.username
                       /\ error' \notin fetchErrors
                    \/ /\ data' = <<>>
                       /\ error' \in fetchErrors
               ELSE (\A q \in inflight : q.id # submitted) =>
                      /\ data' = data
                      /\ error' = error]_vars

\* C12: a card that is maximized shows its sandbox, and a control that calls
\* toggleMaximize is rendered for it.
C12_MaximizedShowsSandbox ==
  \A i \in 1..Len(displayed) :
    LET proj == displayed[i]
        card == cards[proj.name]
    IN card.isMaximized =>
         /\ card.showSandbox
         /\ MaximizeControlRendered(proj, card)

====
